---- MODULE Spec2Model ----
(***************************************************************************)
(* One refresh cycle of the AI Macro Desk dashboard                        *)
(* (src/ai_forex_dashboard.py): fetch -> pair assignment -> zero-shot      *)
(* fallback -> macro detection -> calendar entries -> sentiment ->         *)
(* weighting -> per-pair aggregation.                                      *)
(*                                                                         *)
(* Numbers.  The script computes in IEEE doubles; the model computes in    *)
(* exact integers on fixed scales:                                         *)
(*   sentiment value   halves        (0, 1, 2       for 0.0, 0.5, 1.0)     *)
(*   sentiment score   hundredths                                          *)
(*   macro signal      quarters      (-4, 1, 4      for -1.0, 0.25, 1.0)   *)
(*   source weight     tenths        (9, 10, 12, 13)                       *)
(*   recency weight    twentieths    (20, 10, 5, 4, 0)                     *)
(*   item weight       two-hundredths (source weight * recency weight)     *)
(*   macro influence   hundredths    (the slider's step is 0.01)           *)
(* Scores that the script keeps unrounded are kept as exact fractions      *)
(* num/den; the values it stores with round(x, 3) and round(x, 4) are      *)
(* thousandths and ten-thousandths.                                        *)
(* Texts are strings, searched and lowercased character by character.      *)
(***************************************************************************)
EXTENDS Integers, Sequences, FiniteSets, TLC

VARIABLES
    pc,               \* position of the script
    feed_idx,         \* index into rss_feeds of the feed the fetch loop is at
    news_items,       \* the list news_items; each item is a record whose
                      \* DOMAIN is the set of keys the dict has so far
    macro_influence,  \* the slider value, hundredths
    unmatched,        \* indices into news_items of the items labelled Other
                      \* when the zero-shot step starts
    z_results,        \* what the zero-shot pipeline returned, one per unmatched
    sent_results,     \* the list sent_results
    pair_idx,         \* index into pairs of the pair the aggregation loop stopped at
    agg,              \* the dict agg: pair -> aggregate
    probe             \* a text and what the two text functions return for it

vars == <<pc, feed_idx, news_items, macro_influence, unmatched, z_results,
          sent_results, pair_idx, agg, probe>>

Min(a, b) == IF a < b THEN a ELSE b
Max(a, b) == IF a > b THEN a ELSE b

(***************************************************************************)
(* Strings                                                                 *)
(***************************************************************************)
UpperChars == "ABCDEFGHIJKLMNOPQRSTUVWXYZ"
LowerChars == "abcdefghijklmnopqrstuvwxyz"

\* str.lower() on one character
LowerChar(c) ==
    IF \E i \in 1..Len(UpperChars) : SubSeq(UpperChars, i, i) = c
    THEN LET i == CHOOSE j \in 1..Len(UpperChars) : SubSeq(UpperChars, j, j) = c
         IN  SubSeq(LowerChars, i, i)
    ELSE c

\* str.lower()
RECURSIVE lower(_)
lower(t) ==
    IF t = "" THEN ""
    ELSE LowerChar(SubSeq(t, 1, 1)) \o lower(SubSeq(t, 2, Len(t)))

\* Python's `kw in t` on strings
Contains(t, kw) ==
    \E i \in 1..(Len(t) - Len(kw) + 1) : SubSeq(t, i, i + Len(kw) - 1) = kw

\* the rest of t from its first space on ("" when it has none): what is left when
\* \S+ has matched greedily from the start of t
RECURSIVE SkipNonSpace(_)
SkipNonSpace(t) ==
    IF t = "" \/ SubSeq(t, 1, 1) = " " THEN t
    ELSE SkipNonSpace(SubSeq(t, 2, Len(t)))

\* re.sub(r"http\S+", "", text)
RECURSIVE RemoveUrls(_)
RemoveUrls(t) ==
    IF t = "" THEN ""
    ELSE IF /\ Len(t) >= 5
            /\ SubSeq(t, 1, 4) = "http"
            /\ SubSeq(t, 5, 5) # " "
         THEN RemoveUrls(SkipNonSpace(SubSeq(t, 5, Len(t))))
         ELSE SubSeq(t, 1, 1) \o RemoveUrls(SubSeq(t, 2, Len(t)))

\* re.sub(r"\s+", " ", text): runs of spaces become one space
RECURSIVE CollapseSpaces(_)
CollapseSpaces(t) ==
    IF Len(t) < 2 THEN t
    ELSE IF SubSeq(t, 1, 2) = "  " THEN CollapseSpaces(SubSeq(t, 2, Len(t)))
         ELSE SubSeq(t, 1, 1) \o CollapseSpaces(SubSeq(t, 2, Len(t)))

\* str.strip() of a string whose runs of spaces are already single
Strip(t) ==
    LET a == IF t # "" /\ SubSeq(t, 1, 1) = " " THEN SubSeq(t, 2, Len(t)) ELSE t
    IN  IF a # "" /\ SubSeq(a, Len(a), Len(a)) = " "
        THEN SubSeq(a, 1, Len(a) - 1) ELSE a

clean_text(text) ==
    IF text = "" THEN "" ELSE Strip(CollapseSpaces(RemoveUrls(text)))

(***************************************************************************)
(* Configuration                                                           *)
(***************************************************************************)
\* rss_feeds, in the order the dict is iterated
rss_feeds ==
    << "Investing.com", "Bloomberg Economics", "Forex Factory",
       "Reuters", "CNBC", "MarketWatch" >>

\* source_weights, tenths
source_weights ==
    [ s \in { "Reuters", "Bloomberg Economics", "Investing.com", "CNBC",
              "MarketWatch", "Forex Factory", "Default" } |->
        CASE s = "Reuters"             -> 12
          [] s = "Bloomberg Economics" -> 13
          [] s = "Forex Factory"       -> 9
          [] OTHER                     -> 10 ]

items_per_feed == 8

recency_half_life_hours == 72

\* PAIR_KEYWORDS, in declaration order
PAIR_KEYWORDS ==
    << [ pair |-> "EUR/USD",
         kws  |-> << "eurusd", "euro", "ecb", "eurozone", "european central bank",
                     "eurostat", "bundesbank", "eur" >> ],
       [ pair |-> "GBP/USD",
         kws  |-> << "gbpusd", "pound", "sterling", "bank of england", "boe",
                     "uk", "britain", "gbp" >> ],
       [ pair |-> "USD/JPY",
         kws  |-> << "usdjpy", "yen", "boj", "bank of japan", "tokyo", "japan",
                     "jpy" >> ],
       [ pair |-> "XAU/USD",
         kws  |-> << "gold", "xau", "spot gold", "precious metal", "gold price",
                     "xauusd" >> ] >>

PAIR_LABELS == [ i \in 1..Len(PAIR_KEYWORDS) |-> PAIR_KEYWORDS[i].pair ]

PairSet == { PAIR_LABELS[i] : i \in 1..Len(PAIR_LABELS) }

PAIR_BASE_QUOTE ==
    [ p \in PairSet |->
        CASE p = "EUR/USD" -> << "EUR", "USD" >>
          [] p = "GBP/USD" -> << "GBP", "USD" >>
          [] p = "USD/JPY" -> << "USD", "JPY" >>
          [] p = "XAU/USD" -> << "XAU", "USD" >> ]

\* MACRO_KEYWORDS, in declaration order
MACRO_KEYWORDS ==
    << << "cpi", "USD" >>, << "consumer price", "USD" >>, << "inflation", "USD" >>,
       << "nfp", "USD" >>, << "nonfarm", "USD" >>, << "unemployment", "USD" >>,
       << "jobs report", "USD" >>, << "gdp", "USD" >>, << "fed", "USD" >>,
       << "fomc", "USD" >>, << "interest rate", "USD" >>,
       << "rate decision", "USD" >>, << "ecb", "EUR" >>, << "euro area", "EUR" >>,
       << "bank of england", "GBP" >>, << "boj", "JPY" >>, << "japan", "JPY" >>,
       << "uk", "GBP" >>, << "britain", "GBP" >>, << "pound", "GBP" >> >>

POSITIVE_SIGNS ==
    << "beats", "better than expected", "strong", "stronger", "tops expectations",
       "higher than expected", "surprise up", "revised up", "rise", "risen",
       "upbeat", "positive", "hike", "raises", "raised", "rate hike",
       "increases" >>

NEGATIVE_SIGNS ==
    << "misses", "below expectations", "weaker", "lower than expected",
       "disappoint", "falls", "fell", "down", "cut", "cuts", "cut rates", "eases",
       "negative", "revised down" >>

(***************************************************************************)
(* 2. Pair by keywords                                                     *)
(***************************************************************************)
NoPair == "None"

\* AnyKeywordFrom with the return one level out: only the first keyword is tried
AnyKeywordFirstOnly(kws, k, t) == Contains(t, kws[1])

\* the inner loop `for kw in kws: if kw in t: return pair`, from keyword k on
RECURSIVE AnyKeywordFrom(_, _, _)
AnyKeywordFrom(kws, k, t) ==
    IF k > Len(kws) THEN FALSE
    ELSE IF Contains(t, kws[k]) THEN TRUE
         ELSE AnyKeywordFrom(kws, k + 1, t)

\* the outer loop `for pair, kws in PAIR_KEYWORDS.items()`, from pair i on
RECURSIVE MatchFrom(_, _)
MatchFrom(i, t) ==
    IF i > Len(PAIR_KEYWORDS) THEN NoPair
    ELSE IF AnyKeywordFrom(PAIR_KEYWORDS[i].kws, 1, t) THEN PAIR_KEYWORDS[i].pair
         ELSE MatchFrom(i + 1, t)

match_pair_by_keywords(text) == MatchFrom(1, lower(text))

(***************************************************************************)
(* 3. Macro events                                                         *)
(***************************************************************************)
\* `for pw in signs: if pw in t: signal += 1.0`, from phrase k on
RECURSIVE CountSignsFrom(_, _, _)
CountSignsFrom(signs, k, t) ==
    IF k > Len(signs) THEN 0
    ELSE (IF Contains(t, signs[k]) THEN 1 ELSE 0) + CountSignsFrom(signs, k + 1, t)

\* ClampSignal without the min and the max
UnclampedSignal(signal) == IF signal = 0 THEN 1 ELSE 4 * signal

\* min(1.0, signal), max(-1.0, signal) or 0.25, in quarters
ClampSignal(signal) ==
    IF signal > 0 THEN Min(4, 4 * signal)
    ELSE IF signal < 0 THEN Max(-4, 4 * signal)
    ELSE 1

\* the signal of one matched keyword, quarters
SignalOf(t) ==
    ClampSignal(CountSignsFrom(POSITIVE_SIGNS, 1, t)
                - CountSignsFrom(NEGATIVE_SIGNS, 1, t))

\* `for kw, cur in MACRO_KEYWORDS.items()`, from keyword k on
RECURSIVE DetectFrom(_, _)
DetectFrom(k, t) ==
    IF k > Len(MACRO_KEYWORDS) THEN << >>
    ELSE IF Contains(t, MACRO_KEYWORDS[k][1])
         THEN << [ event    |-> MACRO_KEYWORDS[k][1],
                   currency |-> MACRO_KEYWORDS[k][2],
                   signal   |-> SignalOf(t) ] >> \o DetectFrom(k + 1, t)
         ELSE DetectFrom(k + 1, t)

detect_macro_events_in_text(text) == DetectFrom(1, lower(text))

(***************************************************************************)
(* The feeds of one cycle                                                  *)
(***************************************************************************)
\* at most this many items are fetched in one cycle
MaxItems == 2

\* Times are hours relative to `now` (now = 0); an absent value is << >>.
None == << >>
Some(x) == << x >>
now == 0

\* exp(lam * age_hours) is 0.0 in doubles from this many half-lives on
\* (math.exp(-0.693147 * 1076) == 0.0, math.exp(-0.693147 * 1075) == 5e-324)
ExpUnderflowHalfLives == 1076

\* What each feed may carry in a cycle: feed.entries is any subsequence of
\* these.  published is published_parsed as a time, or None.
FeedCatalogue ==
    [ name \in { rss_feeds[i] : i \in 1..Len(rss_feeds) } |->
        CASE name = "Investing.com" ->
               << [ title     |-> "Stocks  mixed http://t.co/x",
                    summary   |-> "",
                    published |-> Some(recency_half_life_hours) ] >>
          [] name = "Bloomberg Economics" ->
               << [ title     |-> "Fed upbeat: strong jobs report beats, wages rise, hike seen",
                    summary   |-> "",
                    published |-> Some(0 - recency_half_life_hours) ] >>
          [] name = "Forex Factory" ->
               << [ title     |-> "Euro steady",
                    summary   |-> "Quiet  session as Fed and BOJ wait ",
                    published |-> None ] >>
          [] name = "Reuters" ->
               << [ title     |-> "ECB hikes rates as inflation beats expectations",
                    summary   |-> "",
                    published |-> Some(now) ],
                  [ title     |-> "ECB meeting",
                    summary   |-> "",
                    published |-> Some(now) ] >>
          [] name = "CNBC" ->
               << [ title     |-> "  ",
                    summary   |-> "Markets wrap",
                    published |-> Some(now) ] >>
          [] name = "MarketWatch" ->
               << [ title     |-> "UK GDP falls, misses forecasts",
                    summary   |-> "",
                    published |-> Some(0 - ExpUnderflowHalfLives * recency_half_life_hours) ] >> ]

\* the elements of c at the indices in S, in order
RECURSIVE Pick(_, _, _)
Pick(c, S, i) ==
    IF i > Len(c) THEN << >>
    ELSE (IF i \in S THEN << c[i] >> ELSE << >>) \o Pick(c, S, i + 1)

SubSequences(c) == { Pick(c, S, 1) : S \in SUBSET (1..Len(c)) }

\* feed.entries[:items_per_feed]
Take(s, n) == SubSeq(s, 1, Min(n, Len(s)))

(***************************************************************************)
(* 1. Fetch                                                                *)
(***************************************************************************)
\* the body of `for entry in entries`, for the entries from k on
RECURSIVE CollectFrom(_, _, _)
CollectFrom(name, entries, k) ==
    IF k > Len(entries) THEN << >>
    ELSE LET title   == clean_text(entries[k].title)
             summary == clean_text(entries[k].summary)
         IN  (IF title = "" THEN << >>
              ELSE << [ source    |-> name,
                        title     |-> title,
                        summary   |-> summary,
                        published |-> entries[k].published ] >>)
             \o CollectFrom(name, entries, k + 1)

\* one iteration of `for name, url in rss_feeds.items()` that ends normally
FetchFeed ==
    /\ pc = "fetch"
    /\ feed_idx <= Len(rss_feeds)
    /\ \E feed_entries \in SubSequences(FeedCatalogue[rss_feeds[feed_idx]]) :
         LET entries == Take(feed_entries, items_per_feed)
             got     == CollectFrom(rss_feeds[feed_idx], entries, 1)
         IN  /\ Len(news_items) + Len(got) <= MaxItems
             /\ news_items' = news_items \o got
    /\ feed_idx' = feed_idx + 1
    /\ UNCHANGED <<pc, macro_influence, unmatched, z_results, sent_results,
                   pair_idx, agg, probe>>

\* one iteration that raises: in feedparser.parse (done = 0) or while entry
\* done + 1 is handled; the items appended before stay in news_items
FetchFeedFails ==
    /\ pc = "fetch"
    /\ feed_idx <= Len(rss_feeds)
    /\ \E feed_entries \in SubSequences(FeedCatalogue[rss_feeds[feed_idx]]) :
       \E done \in 0..Len(feed_entries) :
         LET entries == Take(feed_entries, items_per_feed)
             got     == CollectFrom(rss_feeds[feed_idx], SubSeq(entries, 1, done), 1)
         IN  /\ done = 0 \/ done < Len(entries)
             /\ Len(news_items) + Len(got) <= MaxItems
             /\ news_items' = news_items \o got
    /\ feed_idx' = feed_idx + 1
    /\ UNCHANGED <<pc, macro_influence, unmatched, z_results, sent_results,
                   pair_idx, agg, probe>>

\* `if len(news_items) == 0: st.info(...); st.stop()`
StopEmpty ==
    /\ pc = "fetch"
    /\ feed_idx > Len(rss_feeds)
    /\ Len(news_items) = 0
    /\ pc' = "stopped"
    /\ UNCHANGED <<feed_idx, news_items, macro_influence, unmatched, z_results,
                   sent_results, pair_idx, agg, probe>>

(***************************************************************************)
(* 2. Pair of each item                                                    *)
(***************************************************************************)
\* the body of `for n in news_items` at lines 190-194
WithPair(n) ==
    LET combined == n.title \o " . " \o n.summary
        pair     == match_pair_by_keywords(combined)
    IN  n @@ [ text |-> combined,
               pair |-> IF pair # NoPair THEN pair ELSE "Other" ]

AssignPairs ==
    /\ pc = "fetch"
    /\ feed_idx > Len(rss_feeds)
    /\ Len(news_items) # 0
    /\ news_items' = [ i \in 1..Len(news_items) |-> WithPair(news_items[i]) ]
    /\ unmatched' = SelectSeq([ i \in 1..Len(news_items) |-> i ],
                              LAMBDA i : news_items'[i].pair = "Other")
    /\ pc' = "zero_shot"
    /\ UNCHANGED <<feed_idx, macro_influence, z_results, sent_results,
                   pair_idx, agg, probe>>

(***************************************************************************)
(* Zero-shot fallback for the unmatched items                              *)
(***************************************************************************)
\* what the zero-shot pipeline may rank first for a text: res["labels"][0] and
\* res["scores"][0] (hundredths)
ZeroShotOutcomes ==
    { [ label |-> "EUR/USD", score |-> 29 ],
      [ label |-> "EUR/USD", score |-> 30 ],
      [ label |-> "USD/JPY", score |-> 95 ] }

\* Relabel with > for >=
RelabelAbove(u, res) ==
    IF res.score > 30 THEN [ u EXCEPT !.pair = res.label ] ELSE u

\* `if score >= 0.3: u["pair"] = label`
Relabel(u, res) ==
    IF res.score >= 30 THEN [ u EXCEPT !.pair = res.label ] ELSE u

\* the position of item i in unmatched, 0 when it is not there
UnmatchedPos(i) ==
    IF \E k \in 1..Len(unmatched) : unmatched[k] = i
    THEN CHOOSE k \in 1..Len(unmatched) : unmatched[k] = i
    ELSE 0

\* `if zero_shot and len(unmatched) > 0` is false: get_zero_shot_pipeline()
\* returned None, or there is no unmatched item
ZeroShotSkipped ==
    /\ pc = "zero_shot"
    /\ pc' = "macro"
    /\ UNCHANGED <<feed_idx, news_items, macro_influence, unmatched, z_results,
                   sent_results, pair_idx, agg, probe>>

\* zero_shot(texts, PAIR_LABELS, multi_label=False) returns one result per text
ZeroShotClassify ==
    /\ pc = "zero_shot"
    /\ Len(unmatched) > 0
    /\ \E results \in [ 1..Len(unmatched) -> ZeroShotOutcomes ] :
         /\ z_results' = results
         /\ news_items' =
              [ i \in 1..Len(news_items) |->
                  IF UnmatchedPos(i) = 0 THEN news_items[i]
                  ELSE Relabel(news_items[i], results[UnmatchedPos(i)]) ]
    /\ pc' = "macro"
    /\ UNCHANGED <<feed_idx, macro_influence, unmatched, sent_results,
                   pair_idx, agg, probe>>

\* the call raises: `except Exception: pass`
ZeroShotRaises ==
    /\ pc = "zero_shot"
    /\ Len(unmatched) > 0
    /\ pc' = "macro"
    /\ UNCHANGED <<feed_idx, news_items, macro_influence, unmatched, z_results,
                   sent_results, pair_idx, agg, probe>>

(***************************************************************************)
(* 3. Macro events of each item; calendar entries                          *)
(***************************************************************************)
DetectMacro ==
    /\ pc = "macro"
    /\ news_items' =
         [ i \in 1..Len(news_items) |->
             news_items[i] @@
               [ macro_events |-> detect_macro_events_in_text(news_items[i].text) ] ]
    /\ pc' = "calendar"
    /\ UNCHANGED <<feed_idx, macro_influence, unmatched, z_results, sent_results,
                   pair_idx, agg, probe>>

\* what the calendar feed may carry: factory_feed.entries is any subsequence
CalendarCatalogue ==
    << [ title |-> "Bank Holiday", published |-> None ],
       [ title |-> "CPI y/y",      published |-> Some(now) ] >>

CalendarLimit == 80

\* any(kw in txt for kw in MACRO_KEYWORDS.keys())
AnyMacroKeyword(txt) ==
    \E k \in 1..Len(MACRO_KEYWORDS) : Contains(txt, MACRO_KEYWORDS[k][1])

\* the body of `for entry in factory_feed.entries[:80]`, from entry k on
RECURSIVE CalendarFrom(_, _)
CalendarFrom(entries, k) ==
    IF k > Len(entries) THEN << >>
    ELSE LET title == entries[k].title
             txt   == lower(title)
         IN  (IF AnyMacroKeyword(txt)
              THEN << [ source       |-> "Forex Factory (calendar)",
                        title        |-> title,
                        summary      |-> "",
                        published    |-> entries[k].published,
                        text         |-> txt,
                        pair         |-> "Other",
                        macro_events |-> detect_macro_events_in_text(txt) ] >>
              ELSE << >>)
             \o CalendarFrom(entries, k + 1)

\* the try block at lines 238-258 ends normally
CalendarEntries ==
    /\ pc = "calendar"
    /\ \E feed_entries \in SubSequences(CalendarCatalogue) :
         news_items' = news_items \o CalendarFrom(Take(feed_entries, CalendarLimit), 1)
    /\ pc' = "sentiment"
    /\ UNCHANGED <<feed_idx, macro_influence, unmatched, z_results, sent_results,
                   pair_idx, agg, probe>>

\* it raises, in feedparser.parse (done = 0) or at entry done + 1:
\* `except Exception: pass`
CalendarFails ==
    /\ pc = "calendar"
    /\ \E feed_entries \in SubSequences(CalendarCatalogue) :
       \E done \in 0..Len(feed_entries) :
         /\ done = 0 \/ done < Len(feed_entries)
         /\ news_items' = news_items \o
              CalendarFrom(SubSeq(Take(feed_entries, CalendarLimit), 1, done), 1)
    /\ pc' = "sentiment"
    /\ UNCHANGED <<feed_idx, macro_influence, unmatched, z_results, sent_results,
                   pair_idx, agg, probe>>

(***************************************************************************)
(* 4. Sentiment                                                            *)
(***************************************************************************)
\* A dict {"label", "score"} the pipeline may return; score in hundredths.
Dict(label, score) == [ kind |-> "dict", label |-> label, score |-> score ]
\* A list of such dicts.
List(elems) == [ kind |-> "list", elems |-> elems ]

SentimentOutcomes ==
    { Dict("POSITIVE", 90), Dict("NEGATIVE", 80), Dict("LABEL_1", 50) }

\* sentiment_pipeline(texts, truncation=True) returns a list of dicts, one per
\* text or one short
SentimentBatch ==
    /\ pc = "sentiment"
    /\ \E k \in { Len(news_items), Len(news_items) - 1 } :
       \E results \in [ 1..k -> SentimentOutcomes ] :
         sent_results' = results
    /\ pc' = "attach"
    /\ UNCHANGED <<feed_idx, news_items, macro_influence, unmatched, z_results,
                   pair_idx, agg, probe>>

\* results of unexpected shape: a value that is not a dict (a str), an empty
\* list, a dict without "label", a dict whose "label" is None.  A dict has
\* the field label when the key is there with a str, and label_value when it
\* is there with another value.
MalformedOutcomes ==
    { [ kind |-> "str" ],
      List(<< >>),
      [ kind |-> "dict", score |-> 50 ],
      [ kind |-> "dict", label_value |-> None, score |-> 50 ] }

\* the batch call returns one result per text, one of them of unexpected shape
SentimentBatchMalformed ==
    /\ pc = "sentiment"
    /\ \E k \in 1..Len(news_items) :
       \E bad \in MalformedOutcomes :
         sent_results' = [ i \in 1..Len(news_items) |->
                             IF i = k THEN bad ELSE Dict("NEGATIVE", 80) ]
    /\ pc' = "attach"
    /\ UNCHANGED <<feed_idx, news_items, macro_influence, unmatched, z_results,
                   pair_idx, agg, probe>>

\* what one single call leaves in sent_results: the list it returns, or the
\* default appended when it raises
FallbackOutcomes ==
    { List(<< Dict("POSITIVE", 90) >>), List(<< Dict("NEUTRAL", 50) >>) }

\* the batch call raises: one call per text
SentimentFallback ==
    /\ pc = "sentiment"
    /\ \E results \in [ 1..Len(news_items) -> FallbackOutcomes ] :
         sent_results' = results
    /\ pc' = "attach"
    /\ UNCHANGED <<feed_idx, news_items, macro_influence, unmatched, z_results,
                   pair_idx, agg, probe>>

\* sentiment value in halves
sentiment_to_numeric(label) ==
    LET lab == lower(label)
    IN  IF Contains(lab, "positive") \/ Contains(lab, "pos") THEN 2
        ELSE IF Contains(lab, "negative") \/ Contains(lab, "neg") THEN 0
        ELSE 1

\* `if isinstance(s, list): s = s[0]` (IndexError on an empty list)
Unwrapped(s0) == IF s0.kind = "list" THEN s0.elems[1] ELSE s0

RaisesIndexError(s0) == s0.kind = "list" /\ Len(s0.elems) = 0

\* label.lower() raises AttributeError: s is a dict whose "label" is not a str
RaisesAttributeError(s0) ==
    /\ ~RaisesIndexError(s0)
    /\ Unwrapped(s0).kind = "dict"
    /\ "label_value" \in DOMAIN Unwrapped(s0)

\* s.get("label", "") if isinstance(s, dict) else "", a str
LabelOf(s) == IF s.kind = "dict" /\ "label" \in DOMAIN s THEN s.label ELSE ""

\* float(s.get("score", 0.0)) if isinstance(s, dict) else 0.0
ScoreOf(s) == IF s.kind = "dict" /\ "score" \in DOMAIN s THEN s.score ELSE 0

\* WithSentiment that leaves out sent_label
WithSentimentValueOnly(n, s0) ==
    n @@ [ sent_score |-> ScoreOf(Unwrapped(s0)),
           sent_value |-> sentiment_to_numeric(LabelOf(Unwrapped(s0))) ]

\* the body of `for n, s in zip(news_items, sent_results)` when it does not
\* raise
WithSentiment(n, s0) ==
    n @@ [ sent_label |-> LabelOf(Unwrapped(s0)),
           sent_score |-> ScoreOf(Unwrapped(s0)),
           sent_value |-> sentiment_to_numeric(LabelOf(Unwrapped(s0))) ]

\* the body when label.lower() raises at line 291: lines 289 and 290 have
\* been executed
WithLabelAndScore(n, s0) ==
    n @@ [ sent_label |-> Unwrapped(s0).label_value,
           sent_score |-> ScoreOf(Unwrapped(s0)) ]

\* the first iteration of the zip loop that raises, 0 when none does
FirstAttachError ==
    LET bad == { i \in 1..Min(Len(news_items), Len(sent_results)) :
                   RaisesIndexError(sent_results[i])
                   \/ RaisesAttributeError(sent_results[i]) }
    IN  IF bad = {} THEN 0 ELSE CHOOSE i \in bad : \A j \in bad : i <= j

\* the zip loop runs to its end: it stops at the shorter of the two lists
AttachSentiment ==
    /\ pc = "attach"
    /\ FirstAttachError = 0
    /\ news_items' =
         [ i \in 1..Len(news_items) |->
             IF i <= Len(sent_results)
             THEN WithSentiment(news_items[i], sent_results[i])
             ELSE news_items[i] ]
    /\ pc' = "weight"
    /\ UNCHANGED <<feed_idx, macro_influence, unmatched, z_results, sent_results,
                   pair_idx, agg, probe>>

\* an iteration raises IndexError (line 286) or AttributeError (line 291);
\* nothing catches it and the script run ends there
AttachRaises ==
    /\ pc = "attach"
    /\ FirstAttachError # 0
    /\ news_items' =
         [ i \in 1..Len(news_items) |->
             IF i < FirstAttachError
             THEN WithSentiment(news_items[i], sent_results[i])
             ELSE IF i = FirstAttachError /\ RaisesAttributeError(sent_results[i])
             THEN WithLabelAndScore(news_items[i], sent_results[i])
             ELSE news_items[i] ]
    /\ pc' = "attach_crashed"
    /\ UNCHANGED <<feed_idx, macro_influence, unmatched, z_results, sent_results,
                   pair_idx, agg, probe>>

(***************************************************************************)
(* 5. Weights                                                              *)
(***************************************************************************)
\* exp(lam * age_hours) with lam = -0.693147 / half_life_hours, in twentieths,
\* for an age of a whole number of half-lives: 2^-k to seven digits, and 0.0
\* once the double underflows
ExpDecay(age_hours, half_life_hours) ==
    LET k == age_hours \div half_life_hours
    IN  CASE k >= ExpUnderflowHalfLives -> 0
          [] k = 0 -> 20
          [] k = 1 -> 10
          [] k = 2 -> 5

\* recency weight in twentieths
recency_weight(published, half_life_hours) ==
    IF published = None THEN 4
    ELSE ExpDecay(Max(now - published[1], 0), half_life_hours)

\* source_weights.get(source, source_weights.get("Default", 1.0))
SourceWeight(source) ==
    IF source \in DOMAIN source_weights THEN source_weights[source]
    ELSE source_weights["Default"]

\* n["weight"] in two-hundredths
WeightOf(n) ==
    SourceWeight(n.source) * recency_weight(n.published, recency_half_life_hours)

Weighting ==
    /\ pc = "weight"
    /\ news_items' =
         [ i \in 1..Len(news_items) |->
             news_items[i] @@ [ weight |-> WeightOf(news_items[i]) ] ]
    /\ pc' = "aggregate"
    /\ UNCHANGED <<feed_idx, macro_influence, unmatched, z_results, sent_results,
                   pair_idx, agg, probe>>

(***************************************************************************)
(* 6. Aggregation per pair                                                 *)
(***************************************************************************)
RECURSIVE SumSeq(_)
SumSeq(s) == IF s = << >> THEN 0 ELSE Head(s) + SumSeq(Tail(s))

\* round(n / d, digits) as n * 10^digits is passed for n: the nearest integer
\* to n / d, the even one of the two at a tie (d > 0)
RoundHalfEven(n, d) ==
    LET q == n \div d
        r == n - q * d
    IN  IF 2 * r < d THEN q
        ELSE IF 2 * r > d THEN q + 1
        ELSE IF q % 2 = 0 THEN q ELSE q + 1

\* ItemsOf that also takes the items labelled Other
ItemsOfOrOther(items, p) ==
    SelectSeq(items, LAMBDA n : n.pair = p \/ n.pair = "Other")

\* [n for n in news_items if n["pair"] == p]
ItemsOf(items, p) == SelectSeq(items, LAMBDA n : n.pair = p)

\* agg[p] of a pair without items
NeutralDefault ==
    [ count          |-> 0,
      weighted_score |-> 500,
      adjusted_score |-> 500,
      bias           |-> "Neutral",
      color          |-> "#D4D4D4",
      top_titles     |-> << >>,
      pos            |-> 0,
      neu            |-> 0,
      neg            |-> 0,
      explanation    |-> "No recent news matched this pair.",
      macro_effect   |-> 0,
      macro_events   |-> << >> ]

\* sum(n["sent_value"] * n["weight"] for n in items): halves * two-hundredths
WeightedSum(items) ==
    SumSeq([ i \in 1..Len(items) |-> items[i].sent_value * items[i].weight ])

\* sum(n["weight"] for n in items) or 1.0, two-hundredths
TotalW(items) ==
    LET w == SumSeq([ i \in 1..Len(items) |-> items[i].weight ])
    IN  IF w = 0 THEN 10 * 20 ELSE w

\* the sort key x.get("weight", 0.0) * x.get("sent_score", 0.0)
SortKey(x) ==
    (IF "weight" \in DOMAIN x THEN x.weight ELSE 0)
    * (IF "sent_score" \in DOMAIN x THEN x.sent_score ELSE 0)

\* x put into a list sorted by descending key, behind the elements whose key
\* is not smaller
RECURSIVE InsertDesc(_, _)
InsertDesc(x, sorted) ==
    IF sorted = << >> THEN << x >>
    ELSE IF SortKey(Head(sorted)) >= SortKey(x)
         THEN << Head(sorted) >> \o InsertDesc(x, Tail(sorted))
         ELSE << x >> \o sorted

\* sorted(items, key=..., reverse=True): stable
RECURSIVE SortedFrom(_, _, _)
SortedFrom(items, k, acc) ==
    IF k > Len(items) THEN acc
    ELSE SortedFrom(items, k + 1, InsertDesc(items[k], acc))

SortedItems(items) == SortedFrom(items, 1, << >>)

\* top_titles (without link and the formatted publication time); sent_score
\* and weight as round(x, 3), thousandths; s.get(key, default) for the three
\* keys read that way
TopTitles(items) ==
    LET top == Take(SortedItems(items), 5)
    IN  [ i \in 1..Len(top) |->
            [ title      |-> top[i].title,
              source     |-> top[i].source,
              sent_label |-> IF "sent_label" \in DOMAIN top[i]
                             THEN top[i].sent_label ELSE "",
              sent_score |-> IF "sent_score" \in DOMAIN top[i]
                             THEN 10 * top[i].sent_score ELSE 0,
              weight     |-> IF "weight" \in DOMAIN top[i]
                             THEN 5 * top[i].weight ELSE 0 ] ]

\* " ".join(t["title"] for t in items[k - 1:])
RECURSIVE JoinTitles(_, _)
JoinTitles(items, k) ==
    IF k > Len(items) THEN ""
    ELSE IF k = Len(items) THEN items[k].title
    ELSE items[k].title \o " " \o JoinTitles(items, k + 1)

\* summarizer(concat, ...)[0]["summary_text"]: the text an external model
\* writes for concat, kept as a text that names what was summarized
Summary(concat) == "summary of: " \o concat

\* explanation; summarized is TRUE when the summarizer is there and returns,
\* FALSE when it is None or raises
Explanation(items, summarized) ==
    IF summarized
    THEN Summary(JoinTitles(Take(SortedItems(items), 6), 1))
    ELSE SortedItems(items)[1].title

\* EffectOnPair without the quote branch
EffectIgnoringQuote(p, ev) ==
    IF ev.currency = PAIR_BASE_QUOTE[p][1] THEN ev.signal ELSE 0

\* effect_on_pair of one event, quarters
EffectOnPair(p, ev) ==
    LET base  == PAIR_BASE_QUOTE[p][1]
        quote == PAIR_BASE_QUOTE[p][2]
    IN  IF ev.currency = base THEN ev.signal
        ELSE IF ev.currency = quote THEN 0 - ev.signal
        ELSE 0

\* ItemMacroEffect without the item weight
ItemMacroEffectUnweighted(p, n) ==
    SumSeq([ j \in 1..Len(n.macro_events) |-> EffectOnPair(p, n.macro_events[j]) ])

\* what the events of one item add to macro_effect_sum
ItemMacroEffect(p, n) ==
    SumSeq([ j \in 1..Len(n.macro_events) |->
               EffectOnPair(p, n.macro_events[j]) * n.weight ])

\* macro_effect_sum: quarters * two-hundredths
MacroEffectSum(p, items) ==
    SumSeq([ i \in 1..Len(items) |-> ItemMacroEffect(p, items[i]) ])

\* the entries one item adds to macro_events_list
ItemMacroEvents(n) ==
    LET shown == SelectSeq(n.macro_events, LAMBDA ev : ev.signal # 0)
    IN  [ j \in 1..Len(shown) |->
            [ title     |-> n.title,
              event     |-> shown[j].event,
              currency  |-> shown[j].currency,
              signal    |-> shown[j].signal,
              weight    |-> n.weight,
              published |-> n.published ] ]

RECURSIVE MacroEventsFrom(_, _)
MacroEventsFrom(items, k) ==
    IF k > Len(items) THEN << >>
    ELSE ItemMacroEvents(items[k]) \o MacroEventsFrom(items, k + 1)

\* weighted_score + macro_influence * macro_effect_norm as the fraction
\* AdjustedNum / AdjustedDen:
\*   ws / (2 tw) + (g / 100) * (mes / (4 tw)) = (200 ws + g mes) / (400 tw)
AdjustedDen(items) == 400 * TotalW(items)

\* UnclampedNum with the macro influence taken as 1.0
UnclampedNumFullInfluence(p, items, gamma) ==
    200 * WeightedSum(items) + 100 * MacroEffectSum(p, items)

UnclampedNum(p, items, gamma) ==
    200 * WeightedSum(items) + gamma * MacroEffectSum(p, items)

\* Clamp without the clamp
NoClamp(num, den) == num

\* max(0.0, min(1.0, adjusted_score)) on the numerator of a fraction num / den
Clamp(num, den) == Max(0, Min(den, num))

AdjustedNum(p, items, gamma) ==
    Clamp(UnclampedNum(p, items, gamma), AdjustedDen(items))

BullishFrom == 62
BearishUpTo == 38

\* the bias of the score num / den
BiasOf(num, den) ==
    IF 100 * num >= BullishFrom * den THEN "Bullish"
    ELSE IF 100 * num <= BearishUpTo * den THEN "Bearish"
    ELSE "Neutral"

ColorOf(bias) ==
    CASE bias = "Bullish" -> "#16C47F"
      [] bias = "Bearish" -> "#D44D5C"
      [] OTHER            -> "#D4D4D4"

\* agg[p] of a pair with items
Aggregate(p, items, gamma, summarized) ==
    LET tw   == TotalW(items)
        num  == AdjustedNum(p, items, gamma)
        den  == AdjustedDen(items)
        bias == BiasOf(num, den)
    IN  [ count          |-> Len(items),
          weighted_score |-> RoundHalfEven(1000 * WeightedSum(items), 2 * tw),
          adjusted_score |-> RoundHalfEven(1000 * num, den),
          bias           |-> bias,
          color          |-> ColorOf(bias),
          top_titles     |-> TopTitles(items),
          pos            |-> Len(SelectSeq(items, LAMBDA n : 4 * n.sent_value > 6)),
          neu            |-> Len(SelectSeq(items, LAMBDA n :
                                   5 * n.sent_value >= 4 /\ 4 * n.sent_value <= 6)),
          neg            |-> Len(SelectSeq(items, LAMBDA n : 5 * n.sent_value < 4)),
          explanation    |-> Explanation(items, summarized),
          macro_effect   |-> RoundHalfEven(10000 * MacroEffectSum(p, items), 4 * tw),
          macro_events   |-> MacroEventsFrom(items, 1) ]

\* n["sent_value"] raises KeyError for an item the zip did not reach
HasSentiment(items) ==
    \A i \in 1..Len(items) : "sent_value" \in DOMAIN items[i]

\* the dict agg after the iterations of `for p in pairs` for the first m
\* pairs; summarized is the set of pairs for which the summarizer returned
AggUpTo(items, m, gamma, summarized) ==
    [ p \in { PAIR_LABELS[i] : i \in 1..m } |->
        IF Len(ItemsOf(items, p)) = 0 THEN NeutralDefault
        ELSE Aggregate(p, ItemsOf(items, p), gamma, p \in summarized) ]

\* the first m pairs that have items: those the summarizer is called for
\* when it is there
PairsWithItems(items, m) ==
    { p \in { PAIR_LABELS[i] : i \in 1..m } : Len(ItemsOf(items, p)) > 0 }

\* the first iteration that raises KeyError, Len(PAIR_LABELS) + 1 when none does
FirstKeyError(items) ==
    LET bad == { i \in 1..Len(PAIR_LABELS) :
                   ~HasSentiment(ItemsOf(items, PAIR_LABELS[i])) }
    IN  IF bad = {} THEN Len(PAIR_LABELS) + 1
        ELSE CHOOSE i \in bad : \A j \in bad : i <= j

\* the loop `for p in pairs` runs to its end
AggregatePairs ==
    /\ pc = "aggregate"
    /\ FirstKeyError(news_items) > Len(PAIR_LABELS)
    /\ \E summarized \in SUBSET PairsWithItems(news_items, Len(PAIR_LABELS)) :
         agg' = AggUpTo(news_items, Len(PAIR_LABELS), macro_influence, summarized)
    /\ pair_idx' = Len(PAIR_LABELS) + 1
    /\ pc' = "done"
    /\ UNCHANGED <<feed_idx, news_items, macro_influence, unmatched, z_results,
                   sent_results, probe>>

\* an iteration raises KeyError at line 327 and the script run ends there
AggregateKeyError ==
    /\ pc = "aggregate"
    /\ FirstKeyError(news_items) <= Len(PAIR_LABELS)
    /\ \E summarized \in SUBSET PairsWithItems(news_items, FirstKeyError(news_items) - 1) :
         agg' = AggUpTo(news_items, FirstKeyError(news_items) - 1, macro_influence,
                        summarized)
    /\ pair_idx' = FirstKeyError(news_items)
    /\ pc' = "crashed"
    /\ UNCHANGED <<feed_idx, news_items, macro_influence, unmatched, z_results,
                   sent_results, probe>>

(***************************************************************************)
(* The cycle                                                               *)
(***************************************************************************)
\* values of the macro influence slider, hundredths
MacroInfluences == { 0, 25, 100 }

NoProbe == [ stage |-> "off" ]

Init ==
    /\ pc = "fetch"
    /\ feed_idx = 1
    /\ news_items = << >>
    /\ macro_influence \in MacroInfluences
    /\ unmatched = << >>
    /\ z_results = << >>
    /\ sent_results = << >>
    /\ pair_idx = 1
    /\ agg = [ p \in {} |-> NeutralDefault ]
    /\ probe = NoProbe

Next ==
    \/ FetchFeed
    \/ FetchFeedFails
    \/ StopEmpty
    \/ AssignPairs
    \/ ZeroShotSkipped
    \/ ZeroShotClassify
    \/ ZeroShotRaises
    \/ DetectMacro
    \/ CalendarEntries
    \/ CalendarFails
    \/ SentimentBatch
    \/ SentimentBatchMalformed
    \/ SentimentFallback
    \/ AttachSentiment
    \/ AttachRaises
    \/ Weighting
    \/ AggregatePairs
    \/ AggregateKeyError

Spec == Init /\ [][Next]_vars

(***************************************************************************)
(* The two text functions on their own: a text is drawn, then               *)
(* match_pair_by_keywords and detect_macro_events_in_text are applied to it *)
(***************************************************************************)
ProbeTitles ==
    { "ECB hikes rates as inflation beats expectations",
      "Pound and euro rally",
      "Gold rises as yen and sterling slip",
      "Stocks mixed",
      "Fed upbeat: strong jobs report beats, wages rise, hike seen",
      "Fed strong, strong dollar falls as data misses",
      "UK GDP falls, misses forecasts",
      "BOJ holds",
      "Ukraine talks",
      "Spot Gold Price",
      "Fed cuts rates",
      "Tokyo CPI beats, yen down" }

ProbeSummaries ==
    { "", "Sterling weaker", "Markets rise", "XAUUSD and EURUSD" }

ProbeTexts ==
    { title \o " . " \o summary : title \in ProbeTitles, summary \in ProbeSummaries }

InitText ==
    /\ pc = "probe"
    /\ feed_idx = 1
    /\ news_items = << >>
    /\ macro_influence = 25
    /\ unmatched = << >>
    /\ z_results = << >>
    /\ sent_results = << >>
    /\ pair_idx = 1
    /\ agg = [ p \in {} |-> NeutralDefault ]
    /\ \E text \in ProbeTexts : probe = [ stage |-> "text", text |-> text ]

ProbeMatch ==
    /\ pc = "probe"
    /\ probe.stage = "text"
    /\ probe' = [ stage |-> "matched",
                  text  |-> probe.text,
                  pair  |-> match_pair_by_keywords(probe.text) ]
    /\ UNCHANGED <<pc, feed_idx, news_items, macro_influence, unmatched, z_results,
                   sent_results, pair_idx, agg>>

ProbeDetect ==
    /\ pc = "probe"
    /\ probe.stage = "matched"
    /\ probe' = [ stage  |-> "detected",
                  text   |-> probe.text,
                  pair   |-> probe.pair,
                  events |-> detect_macro_events_in_text(probe.text) ]
    /\ UNCHANGED <<pc, feed_idx, news_items, macro_influence, unmatched, z_results,
                   sent_results, pair_idx, agg>>

NextText == ProbeMatch \/ ProbeDetect

SpecText == InitText /\ [][NextText]_vars

(***************************************************************************)
(* Evidence and explanation on their own: the items of one pair are drawn,  *)
(* then TopTitles and Explanation are applied to them                       *)
(***************************************************************************)
\* an item as it is when the aggregation loop starts: a fetched entry after
\* pair assignment, macro detection, sentiment attachment and weighting
EvidenceItem(source, title, published, result) ==
    LET n1 == WithPair([ source    |-> source,
                         title     |-> title,
                         summary   |-> "",
                         published |-> published ])
        n2 == n1 @@ [ macro_events |-> detect_macro_events_in_text(n1.text) ]
        n3 == WithSentiment(n2, result)
    IN  n3 @@ [ weight |-> WeightOf(n3) ]

\* seven EUR/USD items; the first and the last have the same sort key
EvidencePool ==
    << EvidenceItem("Reuters", "Euro up", Some(now), Dict("POSITIVE", 90)),
       EvidenceItem("Bloomberg Economics", "Euro zone data", Some(now),
                    Dict("NEGATIVE", 80)),
       EvidenceItem("CNBC", "Euro slips", Some(0 - recency_half_life_hours),
                    Dict("NEGATIVE", 80)),
       EvidenceItem("Forex Factory", "Euro steady", None, Dict("LABEL_1", 50)),
       EvidenceItem("MarketWatch", "Euro outlook",
                    Some(0 - 2 * recency_half_life_hours), Dict("POSITIVE", 90)),
       EvidenceItem("Investing.com", "Euro rally", Some(now), Dict("POSITIVE", 90)),
       EvidenceItem("Reuters", "Euro retreat", Some(now), Dict("POSITIVE", 90)) >>

InitEvidence ==
    /\ pc = "probe"
    /\ feed_idx = 1
    /\ news_items = << >>
    /\ macro_influence = 25
    /\ unmatched = << >>
    /\ z_results = << >>
    /\ sent_results = << >>
    /\ pair_idx = 1
    /\ agg = [ p \in {} |-> NeutralDefault ]
    /\ \E items \in SubSequences(EvidencePool) \ { << >> } :
         probe = [ stage |-> "items", items |-> items ]

ProbeEvidence ==
    /\ pc = "probe"
    /\ probe.stage = "items"
    /\ \E summarized \in BOOLEAN :
         probe' = [ stage       |-> "evidence",
                    items       |-> probe.items,
                    summarized  |-> summarized,
                    top_titles  |-> TopTitles(probe.items),
                    explanation |-> Explanation(probe.items, summarized) ]
    /\ UNCHANGED <<pc, feed_idx, news_items, macro_influence, unmatched, z_results,
                   sent_results, pair_idx, agg>>

NextEvidence == ProbeEvidence

SpecEvidence == InitEvidence /\ [][NextEvidence]_vars

(***************************************************************************)
(* Properties                                                              *)
(***************************************************************************)
CycleEnded == pc \in { "done", "stopped", "attach_crashed", "crashed" }

\* the neutral default as the specification words it
IsNeutralDefault(a) ==
    /\ a.count = 0
    /\ a.weighted_score = 500
    /\ a.adjusted_score = 500
    /\ a.bias = "Neutral"
    /\ a.macro_effect = 0
    /\ a.top_titles = << >>

\* C1: when a cycle has ended, agg holds one aggregate for each configured
\* pair, and the aggregate of every pair without items is the neutral
\* default (count 0, scores 0.5, Neutral, macro effect 0, no evidence).
C1_EveryCycleEmitsAllAggregates ==
    CycleEnded =>
        /\ DOMAIN agg = PairSet
        /\ \A p \in PairSet :
             Len(ItemsOf(news_items, p)) = 0 => IsNeutralDefault(agg[p])

\* C2: a cycle whose fetch stage collected no item ends with the aggregation
\* done and every pair at the neutral default; it does not stop early.
C2_EmptyFetchStillAggregates ==
    (CycleEnded /\ Len(news_items) = 0) =>
        /\ pc = "done"
        /\ DOMAIN agg = PairSet
        /\ \A p \in PairSet : IsNeutralDefault(agg[p])

\* C3: the adjusted score stored in every aggregate lies in [0, 1].
C3_AdjustedScoreInUnitInterval ==
    \A p \in DOMAIN agg :
        agg[p].adjusted_score >= 0 /\ agg[p].adjusted_score <= 1000

\* a finished cycle where the blend of a pair left [0, 1] at the top and the
\* clamp brought it back to 1
C3_ClampActed ==
    /\ pc = "done"
    /\ \E p \in PairSet :
         LET items == ItemsOf(news_items, p)
         IN  /\ Len(items) > 0
             /\ UnclampedNum(p, items, macro_influence) > AdjustedDen(items)
             /\ agg[p].adjusted_score = 1000

\* C4: in every aggregate the bias is Bullish exactly when the adjusted score
\* it reports is >= 0.62, Bearish exactly when it is <= 0.38, and Neutral
\* otherwise.
C4_BiasFollowsReportedScore ==
    \A p \in DOMAIN agg :
        /\ agg[p].bias = "Bullish" <=> agg[p].adjusted_score >= 10 * BullishFrom
        /\ agg[p].bias = "Bearish" <=> agg[p].adjusted_score <= 10 * BearishUpTo
        /\ agg[p].bias \in { "Bullish", "Bearish", "Neutral" }

\* the batch of the scenario: the one Reuters item, published now, neutral
\* sentiment, macro influence 0.25, the cycle run to its end
C5_Scenario ==
    /\ pc = "done"
    /\ macro_influence = 25
    /\ Len(news_items) = 1
    /\ news_items[1].source = "Reuters"
    /\ news_items[1].text = "ECB hikes rates as inflation beats expectations . "
    /\ news_items[1].published = Some(now)
    /\ news_items[1].sent_value = 1

\* C5 as stated: in the scenario the item goes to EUR/USD, the macro effect
\* of EUR/USD is about +1.0, its adjusted score about 0.75, its bias Bullish.
C5_ScenarioIsBullish ==
    C5_Scenario =>
        /\ news_items[1].pair = "EUR/USD"
        /\ agg["EUR/USD"].macro_effect >= 9500
        /\ agg["EUR/USD"].macro_effect <= 10500
        /\ agg["EUR/USD"].adjusted_score >= 740
        /\ agg["EUR/USD"].adjusted_score <= 760
        /\ agg["EUR/USD"].bias = "Bullish"

\* C5 as amended: in the scenario the item goes to EUR/USD and carries two
\* events of signal 1.0, inflation -> USD and ecb -> EUR; USD is the quote
\* and EUR the base of EUR/USD, so they cancel: the macro effect is 0, the
\* adjusted score 0.5, the bias Neutral.
C5_ScenarioIsNeutral ==
    C5_Scenario =>
        /\ news_items[1].pair = "EUR/USD"
        /\ news_items[1].macro_events =
             << [ event |-> "inflation", currency |-> "USD", signal |-> 4 ],
                [ event |-> "ecb",       currency |-> "EUR", signal |-> 4 ] >>
        /\ agg["EUR/USD"].count = 1
        /\ agg["EUR/USD"].macro_effect = 0
        /\ agg["EUR/USD"].adjusted_score = 500
        /\ agg["EUR/USD"].bias = "Neutral"

\* the number of places where ph occurs in t
Occurrences(t, ph) ==
    Cardinality({ i \in 1..(Len(t) - Len(ph) + 1) : SubSeq(t, i, i + Len(ph) - 1) = ph })

\* occurrences of positive phrases minus occurrences of negative phrases
OccurrenceSum(t) ==
    SumSeq([ k \in 1..Len(POSITIVE_SIGNS) |-> Occurrences(t, POSITIVE_SIGNS[k]) ])
    - SumSeq([ k \in 1..Len(NEGATIVE_SIGNS) |-> Occurrences(t, NEGATIVE_SIGNS[k]) ])

\* positive phrases that occur minus negative phrases that occur, each phrase
\* counted once
PhrasesPresent(t, signs) ==
    Cardinality({ k \in 1..Len(signs) : Contains(t, signs[k]) })

PresenceSum(t) ==
    PhrasesPresent(t, POSITIVE_SIGNS) - PhrasesPresent(t, NEGATIVE_SIGNS)

\* the signal the specification gives for a sum, quarters
SignalForSum(sum) ==
    IF sum > 0 THEN (IF sum >= 1 THEN 4 ELSE 4 * sum)
    ELSE IF sum < 0 THEN (IF sum <= -1 THEN -4 ELSE 4 * sum)
    ELSE 1

\* events holds one event for every macro keyword found in t, and nothing
\* else, each with the signal sig
OneEventPerKeyword(events, t, sig) ==
    /\ \A k \in 1..Len(MACRO_KEYWORDS) :
         Cardinality({ i \in 1..Len(events) : events[i].event = MACRO_KEYWORDS[k][1] })
           = IF Contains(t, MACRO_KEYWORDS[k][1]) THEN 1 ELSE 0
    /\ \A i \in 1..Len(events) :
         /\ \E k \in 1..Len(MACRO_KEYWORDS) :
              /\ events[i].event = MACRO_KEYWORDS[k][1]
              /\ events[i].currency = MACRO_KEYWORDS[k][2]
         /\ events[i].signal = sig
         /\ events[i].signal >= -4
         /\ events[i].signal <= 4

\* C6 as stated: every macro keyword found gives one event whose signal comes
\* from the number of occurrences of positive phrases minus the number of
\* occurrences of negative phrases: min(1, sum), max(-1, sum), or 0.25 at 0.
C6_SignalFromOccurrences ==
    probe.stage = "detected" =>
        OneEventPerKeyword(probe.events, lower(probe.text),
                           SignalForSum(OccurrenceSum(lower(probe.text))))

\* C6 as amended: the sum counts each lexicon phrase once when it occurs in
\* the text at all, however often it occurs.
C6_SignalFromPhrasesPresent ==
    probe.stage = "detected" =>
        OneEventPerKeyword(probe.events, lower(probe.text),
                           SignalForSum(PresenceSum(lower(probe.text))))

\* a text with a macro keyword, five positive phrases and no negative one:
\* its events have signal 1.0
C6_FivePositivePhrases ==
    /\ probe.stage = "detected"
    /\ PhrasesPresent(lower(probe.text), POSITIVE_SIGNS) = 5
    /\ PhrasesPresent(lower(probe.text), NEGATIVE_SIGNS) = 0
    /\ Len(probe.events) > 0
    /\ \A i \in 1..Len(probe.events) : probe.events[i].signal = 4

\* the pairs that have a keyword in the lowercased text, as indices
PairsWithKeyword(text) ==
    { i \in 1..Len(PAIR_KEYWORDS) :
        \E k \in 1..Len(PAIR_KEYWORDS[i].kws) :
            Contains(lower(text), PAIR_KEYWORDS[i].kws[k]) }

\* C7: match_pair_by_keywords returns the first pair in declaration order
\* that has a keyword in the lowercased text, whatever later pairs match,
\* and no pair exactly when no keyword of any pair is in the text.
C7_FirstPairInDeclarationOrder ==
    probe.stage \in { "matched", "detected" } =>
        LET hits == PairsWithKeyword(probe.text)
        IN  /\ hits = {} <=> probe.pair = NoPair
            /\ hits # {} =>
                 \E i \in hits : /\ \A j \in hits : i <= j
                                 /\ probe.pair = PAIR_LABELS[i]

\* a text with keywords of three pairs, the first of them not the first
\* configured pair
C7_SeveralPairsMatch ==
    /\ probe.stage = "matched"
    /\ Cardinality(PairsWithKeyword(probe.text)) >= 3
    /\ 1 \notin PairsWithKeyword(probe.text)
    /\ probe.pair = "GBP/USD"

\* the items the fetch loop collected (the calendar entries come behind them)
FetchedIdx ==
    { i \in 1..Len(news_items) : news_items[i].source # "Forex Factory (calendar)" }

AfterZeroShot ==
    pc \in { "macro", "calendar", "sentiment", "attach", "weight", "aggregate",
             "done", "crashed" }

AfterMacro == AfterZeroShot /\ pc # "macro"

\* the zero-shot pipeline returned its ranking for the unmatched items
ZeroShotAnswered == Len(z_results) > 0

\* the texts the fetched items can have, and what the two text functions
\* return for each of them
FetchedTexts ==
    UNION { { clean_text(FeedCatalogue[name][k].title) \o " . "
                \o clean_text(FeedCatalogue[name][k].summary) :
                k \in 1..Len(FeedCatalogue[name]) } :
            name \in DOMAIN FeedCatalogue }

KeywordPairOf == [ t \in FetchedTexts |-> match_pair_by_keywords(t) ]

MacroEventsOf == [ t \in FetchedTexts |-> detect_macro_events_in_text(t) ]

\* C8: after the fallback step, an item the keywords matched has the keyword
\* pair; an item they left at Other, for which the classifier ranked a pair
\* first, has that pair if and only if the confidence is >= 0.3 and is Other
\* below 0.3, and then still gets the macro events of its text.
C8_FallbackRelabelsFromThreshold ==
    AfterZeroShot =>
        \A i \in FetchedIdx :
            LET n  == news_items[i]
                kw == KeywordPairOf[n.text]
            IN  /\ kw # NoPair => n.pair = kw
                /\ (kw = NoPair /\ ZeroShotAnswered) =>
                     LET res == z_results[UnmatchedPos(i)]
                     IN  /\ n.pair = res.label <=> res.score >= 30
                         /\ res.score < 30 => n.pair = "Other"
                         /\ (res.score < 30 /\ AfterMacro) =>
                              /\ "macro_events" \in DOMAIN n
                              /\ n.macro_events = MacroEventsOf[n.text]

\* two unmatched items in one cycle: one ranked at 0.29 stays Other and
\* carries macro events, one ranked at exactly 0.30 takes the ranked pair
C8_BothSidesOfThreshold ==
    /\ AfterMacro
    /\ ZeroShotAnswered
    /\ \E i, j \in FetchedIdx :
         /\ UnmatchedPos(i) # 0
         /\ UnmatchedPos(j) # 0
         /\ z_results[UnmatchedPos(i)].score = 29
         /\ news_items[i].pair = "Other"
         /\ Len(news_items[i].macro_events) > 0
         /\ z_results[UnmatchedPos(j)].score = 30
         /\ news_items[j].pair = z_results[UnmatchedPos(j)].label

AggregationTime == pc \in { "aggregate", "done", "crashed" }

\* the pairs whose explanation is not the title of an item: the summarizer
\* returned for them
SummarizedPairs ==
    { p \in DOMAIN agg :
        \A i \in 1..Len(news_items) : agg[p].explanation # news_items[i].title }

\* the indices of the items labelled p
Labelled(p) == { i \in 1..Len(news_items) : news_items[i].pair = p }

\* C9: at aggregation time every item has one label, a configured pair or
\* Other; every aggregate counts exactly the items labelled with its pair, so
\* no item is counted twice and the counts add up to the number of items with
\* a configured pair; and the aggregates are what they would be with the
\* items labelled Other (the calendar entries among them) taken out.
C9_OnlyLabelledItemsAreAggregated ==
    /\ AggregationTime =>
         /\ \A i \in 1..Len(news_items) :
              /\ "pair" \in DOMAIN news_items[i]
              /\ news_items[i].pair \in PairSet \cup { "Other" }
         /\ \A p \in DOMAIN agg : agg[p].count = Cardinality(Labelled(p))
    /\ pc = "done" =>
         /\ SumSeq([ i \in 1..Len(PAIR_LABELS) |-> agg[PAIR_LABELS[i]].count ])
              = Cardinality(UNION { Labelled(p) : p \in PairSet })
         /\ agg = AggUpTo(SelectSeq(news_items, LAMBDA n : n.pair # "Other"),
                          Len(PAIR_LABELS), macro_influence, SummarizedPairs)

\* a finished cycle with a calendar entry, a fetched item left at Other and
\* an item with a configured pair
C9_OtherItemsBesideLabelled ==
    /\ pc = "done"
    /\ \E i \in FetchedIdx : news_items[i].pair = "Other"
    /\ \E i \in 1..Len(news_items) : i \notin FetchedIdx
    /\ \E i \in FetchedIdx : news_items[i].pair \in PairSet

\* C10: every item that reaches aggregation has a weight > 0, and so has the
\* sum of the weights of the items of every pair that has items.
C10_WeightsPositive ==
    AggregationTime =>
        /\ \A i \in 1..Len(news_items) : news_items[i].weight > 0
        /\ \A p \in PairSet :
             Len(ItemsOf(news_items, p)) > 0 =>
               SumSeq([ i \in 1..Len(ItemsOf(news_items, p)) |->
                          ItemsOf(news_items, p)[i].weight ]) > 0

\* the zip loop has run, to its end or to the iteration that raised
PastAttach == pc \in { "weight", "aggregate", "done", "crashed", "attach_crashed" }

\* a result of the expected shape: a dict with a str label and a score, bare
\* or as the first element of a list
WellFormed(s0) ==
    /\ ~RaisesIndexError(s0)
    /\ Unwrapped(s0).kind = "dict"
    /\ DOMAIN Unwrapped(s0) = { "kind", "label", "score" }

\* C11: when the result list and the item list differ in length, the zip step
\* ends the cycle as a fault and attaches no result to any item; when the
\* lengths agree, item i carries the label and the score of result i, on the
\* batch path and on the single-call path.
C11_MisalignedResultsAreAFault ==
    PastAttach =>
        /\ Len(sent_results) # Len(news_items) =>
             /\ pc = "attach_crashed"
             /\ \A i \in 1..Len(news_items) :
                  "sent_value" \notin DOMAIN news_items[i]
        /\ (Len(sent_results) = Len(news_items) /\ pc # "attach_crashed") =>
             \A i \in 1..Len(news_items) :
               WellFormed(sent_results[i]) =>
                  /\ news_items[i].sent_label = Unwrapped(sent_results[i]).label
                  /\ news_items[i].sent_score = Unwrapped(sent_results[i]).score

\* positive -> 1.0, negative -> 0.0, anything else -> 0.5, in halves
ValueOfLabel(label) ==
    IF lower(label) = "positive" THEN 2
    ELSE IF lower(label) = "negative" THEN 0
    ELSE 1

\* C12: a result of unexpected shape (not a dict, an empty list, a dict
\* without label, a dict whose label is not a str) does not make the zip step
\* raise and leaves its item with the sentiment value 0.5; a result of the
\* expected shape gives its item the value of its label.
C12_UnexpectedShapesDegradeToNeutral ==
    PastAttach =>
        \A i \in 1..Min(Len(news_items), Len(sent_results)) :
            /\ sent_results[i] \in MalformedOutcomes =>
                 /\ pc # "attach_crashed"
                 /\ "sent_value" \in DOMAIN news_items[i]
                 /\ news_items[i].sent_value = 1
            /\ (WellFormed(sent_results[i]) /\ "sent_value" \in DOMAIN news_items[i]) =>
                 news_items[i].sent_value
                   = ValueOfLabel(Unwrapped(sent_results[i]).label)

\* C13: an iteration of the fetch loop that raises, in the parse or at any
\* entry, adds no item of its source to the batch, leaves the items of the
\* other sources as they are, and the loop goes on with the next feed.
C13_FailedSourceContributesNothing ==
    [][ FetchFeedFails =>
          /\ news_items' = news_items
          /\ feed_idx' = feed_idx + 1
          /\ pc' = "fetch" ]_vars

\* the keys an item has after classification, macro detection, sentiment
\* attachment and weighting
ItemFields ==
    { "pair", "macro_events", "sent_label", "sent_score", "sent_value", "weight" }

RECURSIVE WeightSumFrom(_, _)
WeightSumFrom(p, k) ==
    IF k > Len(news_items) THEN 0
    ELSE (IF news_items[k].pair = p THEN news_items[k].weight ELSE 0)
         + WeightSumFrom(p, k + 1)

WeightSumUsed(p) == IF WeightSumFrom(p, 1) = 0 THEN 200 ELSE WeightSumFrom(p, 1)

\* +signal for an event on the base currency of p, -signal on the quote
\* currency, 0 otherwise; p is written BASE/QUOTE
Contribution(p, ev) ==
    IF ev.currency = SubSeq(p, 1, 3) THEN ev.signal
    ELSE IF ev.currency = SubSeq(p, 5, 7) THEN 0 - ev.signal
    ELSE 0

RECURSIVE EventContributionsFrom(_, _, _)
EventContributionsFrom(p, n, j) ==
    IF j > Len(n.macro_events) THEN 0
    ELSE Contribution(p, n.macro_events[j]) * n.weight
         + EventContributionsFrom(p, n, j + 1)

\* sum over the items labelled p and their events of contribution * weight
RECURSIVE ContributionSumFrom(_, _)
ContributionSumFrom(p, k) ==
    IF k > Len(news_items) THEN 0
    ELSE (IF news_items[k].pair = p
          THEN EventContributionsFrom(p, news_items[k], 1) ELSE 0)
         + ContributionSumFrom(p, k + 1)

\* sum over the items labelled p of sentiment value * weight
RECURSIVE ValueSumFrom(_, _)
ValueSumFrom(p, k) ==
    IF k > Len(news_items) THEN 0
    ELSE (IF news_items[k].pair = p
          THEN news_items[k].sent_value * news_items[k].weight ELSE 0)
         + ValueSumFrom(p, k + 1)

\* C15: the macro effect of a pair with items is the sum over its items and
\* their events of contribution * weight divided by the weight sum the
\* weighted score is divided by (reported to four decimals), and it enters
\* the adjusted score unrounded with that same divisor.
C15_MacroEffectIsNormalisedContributionSum ==
    \A p \in DOMAIN agg :
        agg[p].count > 0 =>
            /\ agg[p].macro_effect
                 = RoundHalfEven(10000 * ContributionSumFrom(p, 1),
                                 4 * WeightSumUsed(p))
            /\ agg[p].weighted_score
                 = RoundHalfEven(1000 * ValueSumFrom(p, 1), 2 * WeightSumUsed(p))
            /\ agg[p].adjusted_score
                 = RoundHalfEven(
                     1000 * Max(0, Min(400 * WeightSumUsed(p),
                                       200 * ValueSumFrom(p, 1)
                                       + macro_influence * ContributionSumFrom(p, 1))),
                     400 * WeightSumUsed(p))

\* a pair with two items of different weight, events on its base and on its
\* quote currency and on another currency, and a macro effect that is not 0
C15_BaseQuoteAndOtherEvents ==
    /\ pc = "done"
    /\ \E p \in PairSet :
         /\ agg[p].macro_effect # 0
         /\ \E i, k \in Labelled(p) : news_items[i].weight # news_items[k].weight
         /\ \E i \in Labelled(p) :
              \E j \in 1..Len(news_items[i].macro_events) :
                 Contribution(p, news_items[i].macro_events[j]) > 0
         /\ \E i \in Labelled(p) :
              \E j \in 1..Len(news_items[i].macro_events) :
                 /\ news_items[i].macro_events[j].currency = SubSeq(p, 5, 7)
                 /\ Contribution(p, news_items[i].macro_events[j]) < 0
         /\ \E i \in Labelled(p) :
              \E j \in 1..Len(news_items[i].macro_events) :
                 Contribution(p, news_items[i].macro_events[j]) = 0

\* C16: with macro influence 0 the adjusted score of every pair with items is
\* its weighted score and the bias is the one of the weighted score alone;
\* for every macro influence the weighted score is the sum of value * weight
\* over the weight sum and lies in [0,1].
C16_ZeroInfluenceLeavesWeightedScore ==
    \A p \in DOMAIN agg :
        agg[p].count > 0 =>
            /\ macro_influence = 0 =>
                 /\ agg[p].adjusted_score = agg[p].weighted_score
                 /\ agg[p].bias = "Bullish"
                      <=> 100 * ValueSumFrom(p, 1) >= 62 * 2 * WeightSumUsed(p)
                 /\ agg[p].bias = "Bearish"
                      <=> 100 * ValueSumFrom(p, 1) <= 38 * 2 * WeightSumUsed(p)
            /\ agg[p].weighted_score
                 = RoundHalfEven(1000 * ValueSumFrom(p, 1), 2 * WeightSumUsed(p))
            /\ agg[p].weighted_score >= 0
            /\ agg[p].weighted_score <= 1000

\* macro influence 0 and a pair whose macro effect alone would change the bias
C16_MacroEffectIgnored ==
    /\ pc = "done"
    /\ macro_influence = 0
    /\ \E p \in PairSet :
         /\ agg[p].count > 0
         /\ agg[p].macro_effect # 0
         /\ agg[p].bias = "Neutral"
         /\ BiasOf(UnclampedNum(p, ItemsOf(news_items, p), 100),
                   AdjustedDen(ItemsOf(news_items, p))) # "Neutral"


\* the item of probe.items with the given title
EvidenceWithTitle(title) ==
    CHOOSE j \in 1..Len(probe.items) : probe.items[j].title = title

\* C17: the top-evidence list holds min(5, count) different items of the
\* pair in descending order of weight * sentiment score, and no item left out
\* ranks above one that is in it; the explanation is the summary of the
\* concatenated titles of exactly the top-evidence items, and the title of the
\* first of them when the summarizer is absent or raises.
C17_ExplanationFromTopEvidence ==
    probe.stage = "evidence" =>
        LET items == probe.items
            top   == probe.top_titles
            In    == { EvidenceWithTitle(top[i].title) : i \in 1..Len(top) }
        IN  /\ Len(top) = Min(5, Len(items))
            /\ \A i \in 1..Len(top) :
                 \E j \in 1..Len(items) : items[j].title = top[i].title
            /\ Cardinality(In) = Len(top)
            /\ \A i \in 1..(Len(top) - 1) :
                 SortKey(items[EvidenceWithTitle(top[i].title)])
                   >= SortKey(items[EvidenceWithTitle(top[i + 1].title)])
            /\ \A j \in (1..Len(items)) \ In : \A k \in In :
                 SortKey(items[j]) <= SortKey(items[k])
            /\ probe.summarized =>
                 probe.explanation = Summary(JoinTitles(top, 1))
            /\ ~probe.summarized => probe.explanation = top[1].title

====
